---- MODULE Spec2Model ----
(***************************************************************************)
(* Model of compiler/styxc_ast/src/lib.rs: Span queries, unary and binary  *)
(* operator metadata (FromStr, precedence, associativity) and the          *)
(* ASTValidator pass pipeline.                                             *)
(*                                                                         *)
(* Texts (&str) are sequences of one-character strings, so that            *)
(* starts_with / ends_with / chars() / parse::<usize>() are computed on    *)
(* the characters as the code computes them.                               *)
(***************************************************************************)
EXTENDS Integers, Sequences, FiniteSets, TLC

VARIABLES
    spanSelf,    \* Span: receiver of the last/next Span query
    spanOther,   \* Span: argument of the query
    spanCall,    \* record of the last Span query and its return value
    binText,     \* &str handed to BinOpKind::from_str
    binKind,     \* BinOpKind value precedence()/associativity() are called on
    binCall,     \* record of the last BinOpKind call and its return value
    unText,      \* &str handed to UnOpKind::from_str
    unKind,      \* UnOpKind value precedence()/associativity() are called on
    unCall,      \* record of the last UnOpKind call and its return value
    passes,      \* ASTValidator.passes (Vec of fn pointers, by name)
    added,       \* history: arguments of the add_pass calls so far, in order
    outcome,     \* what each pass function returns on the AST under validation
    ast,         \* the AST value owned by walk
    ast0,        \* history: the AST handed to walk
    iter,        \* walk: the not yet consumed rest of `for pass in self.passes`
    invoked,     \* history: the passes called by walk, in call order
    seen,        \* history: the AST each called pass received
    result,      \* return value of walk
    pc           \* "built" | "walking" | "done"

spanVars == <<spanSelf, spanOther, spanCall>>
binVars == <<binText, binKind, binCall>>
unVars == <<unText, unKind, unCall>>
valVars == <<passes, added, outcome, ast, ast0, iter, invoked, seen, result, pc>>
vars == <<spanSelf, spanOther, spanCall, binText, binKind, binCall,
          unText, unKind, unCall,
          passes, added, outcome, ast, ast0, iter, invoked, seen, result, pc>>

----------------------------------------------------------------------------
(* Bounds *)

MaxOffset == 11      \* Span bounds range over 0..MaxOffset
MaxBinLen == 2       \* longest text handed to BinOpKind::from_str
MaxUnLen == 4        \* longest text handed to UnOpKind::from_str
MaxIndex == 3        \* largest n of an Index(n) value drawn directly
MaxArgs == 1         \* longest argument list of a Call(..) value
MaxAdded == 2        \* most add_pass calls before walk

NoCall == [op |-> "none"]

----------------------------------------------------------------------------
(* Span *)

Span(start, end) == <<start, end>>

Spans == {Span(s, e) : s \in 0..MaxOffset, e \in 0..MaxOffset}

\* Variant of includes with non-strict comparisons.
includes_nonstrict(self, other) == self[1] <= other[1] /\ self[2] >= other[2]

includes(self, other) == self[1] < other[1] /\ self[2] > other[2]

\* Variant of overlaps with one strict comparison.
overlaps_strict_end(self, other) == self[1] <= other[2] /\ self[2] > other[1]

overlaps(self, other) == self[1] <= other[2] /\ self[2] >= other[1]

SpanIdle ==
    /\ spanSelf = Span(0, 0)
    /\ spanOther = Span(0, 0)
    /\ spanCall = NoCall

SpanInit ==
    /\ spanSelf \in Spans
    /\ spanOther \in Spans
    /\ spanCall = NoCall

CallIncludes ==
    /\ spanCall' = [op |-> "includes", self |-> spanSelf, other |-> spanOther,
                    ret |-> includes(spanSelf, spanOther)]
    /\ UNCHANGED <<spanSelf, spanOther>>

CallOverlaps ==
    /\ spanCall' = [op |-> "overlaps", self |-> spanSelf, other |-> spanOther,
                    ret |-> overlaps(spanSelf, spanOther)]
    /\ UNCHANGED <<spanSelf, spanOther>>

----------------------------------------------------------------------------
(* Texts and Result values *)

Ok(v) == [tag |-> "Ok", val |-> v]

Err(e) == [tag |-> "Err", err |-> e]

TextsOver(chars, n) == UNION {[1..k -> chars] : k \in 0..n}

----------------------------------------------------------------------------
(* BinOpKind *)

BinOpKinds ==
    {"Add", "Sub", "Mul", "Div", "Mod", "And", "Or", "Xor", "LogAnd", "LogOr",
     "Shl", "Shr", "Eq", "Ne", "Lt", "Gt", "Le", "Ge"}

BinChars == {"+", "-", "*", "/", "%", "&", "|", "^", "<", ">", "=", "!", "a"}

BinTexts == TextsOver(BinChars, MaxBinLen)

NoBinKind == "none"

BinOpKind_from_str(s) ==
    CASE s = <<"+">> -> Ok("Add")
      [] s = <<"-">> -> Ok("Sub")
      [] s = <<"*">> -> Ok("Mul")
      [] s = <<"/">> -> Ok("Div")
      [] s = <<"%">> -> Ok("Mod")
      [] s = <<"&">> -> Ok("And")
      [] s = <<"|">> -> Ok("Or")
      [] s = <<"^">> -> Ok("Xor")
      [] s = <<"<", "<">> -> Ok("Shl")
      [] s = <<">", ">">> -> Ok("Shr")
      [] s = <<"=", "=">> -> Ok("Eq")
      [] s = <<"!", "=">> -> Ok("Ne")
      [] s = <<"<">> -> Ok("Lt")
      [] s = <<">">> -> Ok("Gt")
      [] s = <<"<", "=">> -> Ok("Le")
      [] s = <<">", "=">> -> Ok("Ge")
      [] OTHER -> Err("invalid binary operator")

\* Variant of precedence with the ranks of And and Xor exchanged.
BinOpKind_precedence_xor_first(self) ==
    CASE self \in {"Mul", "Div", "Mod"} -> 3
      [] self \in {"Add", "Sub"} -> 4
      [] self \in {"Shl", "Shr"} -> 5
      [] self \in {"Lt", "Gt", "Le", "Ge"} -> 6
      [] self \in {"Eq", "Ne"} -> 7
      [] self = "Xor" -> 8
      [] self = "And" -> 9
      [] self = "Or" -> 10
      [] self = "LogAnd" -> 11
      [] self = "LogOr" -> 12

BinOpKind_precedence(self) ==
    CASE self \in {"Mul", "Div", "Mod"} -> 3
      [] self \in {"Add", "Sub"} -> 4
      [] self \in {"Shl", "Shr"} -> 5
      [] self \in {"Lt", "Gt", "Le", "Ge"} -> 6
      [] self \in {"Eq", "Ne"} -> 7
      [] self = "And" -> 8
      [] self = "Xor" -> 9
      [] self = "Or" -> 10
      [] self = "LogAnd" -> 11
      [] self = "LogOr" -> 12

BinOpKind_associativity(self) == "Ltr"

BinIdle ==
    /\ binText = <<>>
    /\ binKind = NoBinKind
    /\ binCall = NoCall

\* Either a text waiting to be parsed, or a BinOpKind value to be queried.
BinInit ==
    /\ \/ binText \in BinTexts /\ binKind = NoBinKind
       \/ binText = <<>> /\ binKind \in BinOpKinds
    /\ binCall = NoCall

BinFromStr ==
    /\ binKind = NoBinKind
    /\ binCall' = [op |-> "from_str", text |-> binText,
                   ret |-> BinOpKind_from_str(binText)]
    /\ UNCHANGED <<binText, binKind>>

BinPrecedence ==
    /\ binKind # NoBinKind
    /\ binCall' = [op |-> "precedence", self |-> binKind,
                   ret |-> BinOpKind_precedence(binKind)]
    /\ UNCHANGED <<binText, binKind>>

BinAssociativity ==
    /\ binKind # NoBinKind
    /\ binCall' = [op |-> "associativity", self |-> binKind,
                   ret |-> BinOpKind_associativity(binKind)]
    /\ UNCHANGED <<binText, binKind>>

----------------------------------------------------------------------------
(* UnOpKind *)

ParenArgument(id, ident) == [id |-> id, ident |-> ident]

ParenArguments == {ParenArgument(i, j) : i \in 0..1, j \in 0..1}

Index(n) == [kind |-> "Index", n |-> n]

Call(args) == [kind |-> "Call", args |-> args]

UnitKind(k) == [kind |-> k]

UnOpKinds ==
    {UnitKind(k) : k \in {"SuffixIncr", "SuffixDecr", "PrefixIncr", "PrefixDecr",
                          "Addr", "Not", "LogNot", "Deref", "Neg"}}
    \cup {Index(n) : n \in 0..MaxIndex}
    \cup {Call(a) : a \in TextsOver(ParenArguments, MaxArgs)}

NoUnKind == [kind |-> "none"]

UnChars == {"[", "]", "0", "3", "+", "-", "&", "~", "!", "*", "a"}

\* Texts longer than MaxUnLen that the documentation names.
UnExampleTexts == {<<"[", "a", "b", "c", "]">>}

UnTexts == TextsOver(UnChars, MaxUnLen) \cup UnExampleTexts

Digits == {"0", "1", "2", "3", "4", "5", "6", "7", "8", "9"}

DigitValue(c) ==
    CASE c = "0" -> 0 [] c = "1" -> 1 [] c = "2" -> 2 [] c = "3" -> 3
      [] c = "4" -> 4 [] c = "5" -> 5 [] c = "6" -> 6 [] c = "7" -> 7
      [] c = "8" -> 8 [] c = "9" -> 9

starts_with(s, c) == Len(s) > 0 /\ s[1] = c

ends_with(s, c) == Len(s) > 0 /\ s[Len(s)] = c

\* chars.next(): drops the first character, if any.
chars_next(s) == IF s = <<>> THEN s ELSE Tail(s)

\* chars.next_back(): drops the last character, if any.
chars_next_back(s) == IF s = <<>> THEN s ELSE SubSeq(s, 1, Len(s) - 1)

\* The digit loop of str::parse::<usize>: result = result * 10 + digit,
\* failing on the first character that is no decimal digit.  Texts of the
\* lengths modelled here stay far below usize::MAX, so the overflow branch
\* (which also fails) is not taken.
RECURSIVE ParseDigits(_, _)
ParseDigits(digits, acc) ==
    IF digits = <<>> THEN Ok(acc)
    ELSE IF Head(digits) \notin Digits THEN Err("InvalidDigit")
    ELSE ParseDigits(Tail(digits), acc * 10 + DigitValue(Head(digits)))

\* str::parse::<usize>: empty text fails; a lone sign fails; one leading "+"
\* is skipped; "-" is not a sign of an unsigned type and is an invalid digit.
parse_usize(src) ==
    IF src = <<>> THEN Err("Empty")
    ELSE IF Len(src) = 1 /\ src[1] \in {"+", "-"} THEN Err("InvalidDigit")
    ELSE IF src[1] = "+" THEN ParseDigits(Tail(src), 0)
    ELSE ParseDigits(src, 0)

unwrap_or(r, default) == IF r.tag = "Ok" THEN r.val ELSE default

\* Variant of from_str that rejects an unparseable index instead of
\* falling back to 0.
UnOpKind_from_str_strict(s) ==
    IF starts_with(s, "[") /\ ends_with(s, "]")
    THEN LET inner == chars_next_back(chars_next(s))
             index == parse_usize(inner)
         IN  IF index.tag = "Ok" THEN Ok(Index(index.val))
             ELSE Err("invalid unary operator")
    ELSE CASE s = <<"+", "+">> -> Err("cannot determine associativity of operator")
           [] s = <<"-", "-">> -> Err("cannot determine associativity of operator")
           [] s = <<"&">> -> Ok(UnitKind("Addr"))
           [] s = <<"~">> -> Ok(UnitKind("Not"))
           [] s = <<"!">> -> Ok(UnitKind("LogNot"))
           [] s = <<"*">> -> Ok(UnitKind("Deref"))
           [] OTHER -> Err("invalid unary operator")

UnOpKind_from_str(s) ==
    IF starts_with(s, "[") /\ ends_with(s, "]")
    THEN LET inner == chars_next_back(chars_next(s))
             index == unwrap_or(parse_usize(inner), 0)
         IN  Ok(Index(index))
    ELSE CASE s = <<"+", "+">> -> Err("cannot determine associativity of operator")
           [] s = <<"-", "-">> -> Err("cannot determine associativity of operator")
           [] s = <<"&">> -> Ok(UnitKind("Addr"))
           [] s = <<"~">> -> Ok(UnitKind("Not"))
           [] s = <<"!">> -> Ok(UnitKind("LogNot"))
           [] s = <<"*">> -> Ok(UnitKind("Deref"))
           [] OTHER -> Err("invalid unary operator")

UnOpKind_precedence(self) ==
    IF self.kind \in {"SuffixIncr", "SuffixDecr", "Index"} THEN 1 ELSE 2

\* Variant of associativity that leaves Index out of the left-to-right arm.
UnOpKind_associativity_no_index(self) ==
    IF self.kind \in {"SuffixIncr", "SuffixDecr"} THEN "Ltr" ELSE "Rtl"

UnOpKind_associativity(self) ==
    IF self.kind \in {"SuffixIncr", "SuffixDecr", "Index"} THEN "Ltr" ELSE "Rtl"

UnIdle ==
    /\ unText = <<>>
    /\ unKind = NoUnKind
    /\ unCall = NoCall

\* Either a text waiting to be parsed, or a UnOpKind value (constructed
\* directly by the caller) to be queried.
UnInit ==
    /\ \/ unText \in UnTexts /\ unKind = NoUnKind
       \/ unText = <<>> /\ unKind \in UnOpKinds
    /\ unCall = NoCall

UnFromStr ==
    /\ unKind = NoUnKind
    /\ unCall' = [op |-> "from_str", text |-> unText,
                  ret |-> UnOpKind_from_str(unText)]
    /\ UNCHANGED <<unText, unKind>>

UnPrecedence ==
    /\ unKind # NoUnKind
    /\ unCall' = [op |-> "precedence", self |-> unKind,
                  ret |-> UnOpKind_precedence(unKind)]
    /\ UNCHANGED <<unText, unKind>>

UnAssociativity ==
    /\ unKind # NoUnKind
    /\ unCall' = [op |-> "associativity", self |-> unKind,
                  ret |-> UnOpKind_associativity(unKind)]
    /\ UNCHANGED <<unText, unKind>>

----------------------------------------------------------------------------
(* AST and ASTValidator *)

AST_new == [stmts |-> <<>>, modules |-> <<>>]

\* ASTs handed to walk: the empty one and ones with statements / modules
\* (given by their node ids).
ASTs == {AST_new, [stmts |-> <<1>>, modules |-> <<>>], [stmts |-> <<1, 2>>, modules |-> <<3>>]}

\* Pass functions by name: the two built-in ones and two of the consumer.
PassPool == {"validate_symbols", "validate_types", "q1", "q2"}

Errors == {"E1", "E2"}

Unit == "()"

PassResults == {Ok(Unit)} \cup {Err(e) : e \in Errors}

NoResult == [tag |-> "None"]

ASTValidator_default == <<"validate_symbols", "validate_types">>

ValidatorIdle ==
    /\ passes = <<>>
    /\ added = <<>>
    /\ outcome = [p \in PassPool |-> Ok(Unit)]
    /\ ast = AST_new
    /\ ast0 = AST_new
    /\ iter = <<>>
    /\ invoked = <<>>
    /\ seen = <<>>
    /\ result = NoResult
    /\ pc = "built"

ValidatorInit ==
    /\ passes = ASTValidator_default
    /\ added = <<>>
    /\ outcome \in [PassPool -> PassResults]
    /\ ast \in ASTs
    /\ ast0 = ast
    /\ iter = <<>>
    /\ invoked = <<>>
    /\ seen = <<>>
    /\ result = NoResult
    /\ pc = "built"

\* Variant of add_pass that inserts at the front of the vector.
add_pass_front(pass) ==
    /\ pc = "built"
    /\ Len(added) < MaxAdded
    /\ passes' = <<pass>> \o passes
    /\ added' = Append(added, pass)
    /\ UNCHANGED <<outcome, ast, ast0, iter, invoked, seen, result, pc>>

add_pass(pass) ==
    /\ pc = "built"
    /\ Len(added) < MaxAdded
    /\ passes' = Append(passes, pass)
    /\ added' = Append(added, pass)
    /\ UNCHANGED <<outcome, ast, ast0, iter, invoked, seen, result, pc>>

AddPass == \E pass \in PassPool : add_pass(pass)

\* walk(self, ast): entry; `for pass in self.passes` takes the vector.
WalkCall ==
    /\ pc = "built"
    /\ pc' = "walking"
    /\ iter' = passes
    /\ ast0' = ast
    /\ UNCHANGED <<passes, added, outcome, ast, invoked, seen, result>>

\* Variant of the loop body that records the error and goes on with the
\* next pass.
WalkPass_keep_going ==
    /\ pc = "walking"
    /\ iter # <<>>
    /\ LET pass == Head(iter)
           r == outcome[pass]
       IN  /\ invoked' = Append(invoked, pass)
           /\ seen' = Append(seen, ast)
           /\ iter' = Tail(iter)
           /\ IF r.tag = "Err"
              THEN result' = Err(r.err) /\ UNCHANGED pc
              ELSE UNCHANGED <<result, pc>>
    /\ UNCHANGED <<passes, added, outcome, ast, ast0>>

\* Variant of the loop body that returns an error of its own instead of
\* the error of the pass.
WalkPass_own_error ==
    /\ pc = "walking"
    /\ iter # <<>>
    /\ LET pass == Head(iter)
           r == outcome[pass]
       IN  /\ invoked' = Append(invoked, pass)
           /\ seen' = Append(seen, ast)
           /\ iter' = Tail(iter)
           /\ IF r.tag = "Err"
              THEN result' = Err("E1") /\ pc' = "done"
              ELSE UNCHANGED <<result, pc>>
    /\ UNCHANGED <<passes, added, outcome, ast, ast0>>

\* Variant of the loop body whose pass takes the AST (leaving AST::new()).
WalkPass_takes_ast ==
    /\ pc = "walking"
    /\ iter # <<>>
    /\ LET pass == Head(iter)
           r == outcome[pass]
       IN  /\ invoked' = Append(invoked, pass)
           /\ seen' = Append(seen, ast)
           /\ iter' = Tail(iter)
           /\ IF r.tag = "Err"
              THEN result' = Err(r.err) /\ pc' = "done"
              ELSE UNCHANGED <<result, pc>>
    /\ ast' = AST_new
    /\ UNCHANGED <<passes, added, outcome, ast0>>

\* One iteration of the loop: pass(&ast), then the match on its result.
WalkPass ==
    /\ pc = "walking"
    /\ iter # <<>>
    /\ LET pass == Head(iter)
           r == outcome[pass]
       IN  /\ invoked' = Append(invoked, pass)
           /\ seen' = Append(seen, ast)
           /\ iter' = Tail(iter)
           /\ IF r.tag = "Err"
              THEN result' = Err(r.err) /\ pc' = "done"
              ELSE UNCHANGED <<result, pc>>
    /\ UNCHANGED <<passes, added, outcome, ast, ast0>>

\* The loop is exhausted: Ok(()).
WalkReturn ==
    /\ pc = "walking"
    /\ iter = <<>>
    /\ result' = Ok(Unit)
    /\ pc' = "done"
    /\ UNCHANGED <<passes, added, outcome, ast, ast0, iter, invoked, seen>>

----------------------------------------------------------------------------
(* Specifications *)

SpanFrame == UNCHANGED <<binVars, unVars, valVars>>

BinFrame == UNCHANGED <<spanVars, unVars, valVars>>

UnFrame == UNCHANGED <<spanVars, binVars, valVars>>

ValidatorFrame == UNCHANGED <<spanVars, binVars, unVars>>

SpanSpecInit == SpanInit /\ BinIdle /\ UnIdle /\ ValidatorIdle

SpanSpecNext ==
    \/ CallIncludes /\ SpanFrame
    \/ CallOverlaps /\ SpanFrame

SpanSpec == SpanSpecInit /\ [][SpanSpecNext]_vars

BinSpecInit == BinInit /\ SpanIdle /\ UnIdle /\ ValidatorIdle

BinSpecNext ==
    \/ BinFromStr /\ BinFrame
    \/ BinPrecedence /\ BinFrame
    \/ BinAssociativity /\ BinFrame

BinSpec == BinSpecInit /\ [][BinSpecNext]_vars

UnSpecInit == UnInit /\ SpanIdle /\ BinIdle /\ ValidatorIdle

UnSpecNext ==
    \/ UnFromStr /\ UnFrame
    \/ UnPrecedence /\ UnFrame
    \/ UnAssociativity /\ UnFrame

UnSpec == UnSpecInit /\ [][UnSpecNext]_vars

ValidatorSpecInit == ValidatorInit /\ SpanIdle /\ BinIdle /\ UnIdle

ValidatorSpecNext ==
    \/ AddPass /\ ValidatorFrame
    \/ WalkCall /\ ValidatorFrame
    \/ WalkPass /\ ValidatorFrame
    \/ WalkReturn /\ ValidatorFrame

ValidatorSpec == ValidatorSpecInit /\ [][ValidatorSpecNext]_vars

\* walk is an ordinary synchronous call: once entered, its loop runs on
\* (every pass function returns).
ValidatorFairSpec ==
    /\ ValidatorSpecInit
    /\ [][ValidatorSpecNext]_vars
    /\ WF_vars(WalkPass /\ ValidatorFrame)
    /\ WF_vars(WalkReturn /\ ValidatorFrame)

----------------------------------------------------------------------------
(* Properties of ASTValidator *)

\* Index of the first pass of ps that fails on the AST, 0 if none does.
FirstFailing(ps) ==
    IF \E i \in 1..Len(ps) : outcome[ps[i]].tag = "Err"
    THEN CHOOSE i \in 1..Len(ps) :
            /\ outcome[ps[i]].tag = "Err"
            /\ \A j \in 1..(i - 1) : outcome[ps[j]].tag = "Ok"
    ELSE 0

\* C1: walk calls the registered passes in registration order, each entry
\* at most once, and stops at the first failing pass: the calls made so far
\* are always a prefix of the pass list in which only the last call can
\* have failed, and when walk has returned the calls are exactly p1..pk
\* for the first failing pk (all of them if none fails).
C1_FailFast ==
    /\ Len(invoked) <= Len(passes)
    /\ \A i \in 1..Len(invoked) : invoked[i] = passes[i]
    /\ \A i \in 1..(Len(invoked) - 1) : outcome[invoked[i]].tag = "Ok"
    /\ pc = "done" =>
         LET k == FirstFailing(passes)
         IN  invoked = SubSeq(passes, 1, IF k = 0 THEN Len(passes) ELSE k)

\* [P1 -> Ok, P2 -> Err, P3 -> Ok]: walk has returned after calling P1, P2.
C1_Witness ==
    /\ pc = "done"
    /\ Len(passes) >= 3
    /\ outcome[passes[1]].tag = "Ok"
    /\ outcome[passes[2]].tag = "Err"
    /\ outcome[passes[3]].tag = "Ok"
    /\ passes[3] \notin {passes[1], passes[2]}
    /\ Len(invoked) = 2

C2_Result ==
    /\ pc # "done" => result = NoResult
    /\ pc = "done" =>
         LET k == FirstFailing(passes)
         IN  /\ result = IF k = 0 THEN Ok(Unit) ELSE outcome[passes[k]]
             /\ result.tag = "Ok" <=>
                  \A i \in 1..Len(passes) : outcome[passes[i]].tag = "Ok"
             /\ Len(invoked) <= Len(passes)

\* C2: walk returns exactly the error of the first failing pass in
\* registration order, unchanged, and Ok(()) if and only if every
\* registered pass returns Ok; and a walk that has been entered returns,
\* after at most one call per registered pass.
C2_WalkResult == []C2_Result /\ ((pc = "walking") ~> (pc = "done"))

\* walk returned the first error although a later pass fails with another.
C2_Witness ==
    /\ pc = "done"
    /\ result.tag = "Err"
    /\ \E i \in 1..Len(passes) :
         /\ i > FirstFailing(passes)
         /\ outcome[passes[i]].tag = "Err"
         /\ outcome[passes[i]] # result

\* C5: the pass list is always the two built-in passes, symbol validation
\* then type validation, followed by the added passes in the order of the
\* add_pass calls; so an added pass is only called after both built-in
\* passes were called and succeeded.
C5_PassList ==
    /\ passes = <<"validate_symbols", "validate_types">> \o added
    /\ \A i \in 3..Len(invoked) :
         /\ invoked[i] = added[i - 2]
         /\ invoked[1] = "validate_symbols" /\ outcome[invoked[1]].tag = "Ok"
         /\ invoked[2] = "validate_types" /\ outcome[invoked[2]].tag = "Ok"

\* Two different passes were added and the second of them has been called.
C5_Witness ==
    /\ Len(added) = 2
    /\ added[1] # added[2]
    /\ Len(invoked) = 4

\* C9: walk leaves the AST unchanged: every called pass received the AST
\* that was handed to walk, and the AST still is that value, whatever the
\* passes returned.
C9_ASTUnchanged ==
    /\ ast = ast0
    /\ \A i \in 1..Len(seen) : seen[i] = ast0

\* A non-empty AST went through three passes, the last of which failed.
C9_Witness ==
    /\ pc = "done"
    /\ ast0 # AST_new
    /\ Len(seen) = 3
    /\ result.tag = "Err"

----------------------------------------------------------------------------
(* Properties of Span *)

WellFormed(span) == span[1] <= span[2]

\* The closed intervals [a.start, a.end] and [b.start, b.end] share an offset.
Intersect(a, b) ==
    \E x \in 0..MaxOffset : a[1] <= x /\ x <= a[2] /\ b[1] <= x /\ x <= b[2]

StrictlySurrounds(a, b) == a[1] < b[1] /\ a[2] > b[2]

\* C8 as stated, for all spans: includes is strict surrounding and overlaps
\* is intersection of the closed intervals.
C8_AllSpans ==
    /\ spanCall.op = "includes" =>
         (spanCall.ret <=> StrictlySurrounds(spanCall.self, spanCall.other))
    /\ spanCall.op = "overlaps" =>
         (spanCall.ret <=> Intersect(spanCall.self, spanCall.other))

\* The documented example: a = (0,10), b = (3,5), c = (6,11).
C8_Example ==
    LET a == Span(0, 10)
        b == Span(3, 5)
        c == Span(6, 11)
        Returned(op, x, y, r) ==
            (spanCall.op = op /\ spanCall.self = x /\ spanCall.other = y)
                => spanCall.ret = r
    IN  /\ Returned("includes", a, b, TRUE)
        /\ Returned("includes", a, c, FALSE)
        /\ Returned("overlaps", a, b, TRUE)
        /\ Returned("overlaps", a, c, TRUE)
        /\ Returned("overlaps", b, c, FALSE)

\* C8 (amended): for all spans, a.includes(b) is true iff a strictly
\* surrounds b (so never for a span itself or one sharing a bound); for all
\* spans with start <= end, a.overlaps(b) is true iff the closed intervals
\* intersect (a shared endpoint counts); and the documented example holds.
C8_SpanQueries ==
    /\ spanCall.op = "includes" =>
         /\ spanCall.ret <=> StrictlySurrounds(spanCall.self, spanCall.other)
         /\ (\/ spanCall.self[1] = spanCall.other[1]
             \/ spanCall.self[2] = spanCall.other[2]) => ~spanCall.ret
    /\ (/\ spanCall.op = "overlaps"
        /\ WellFormed(spanCall.self)
        /\ WellFormed(spanCall.other)) =>
         (spanCall.ret <=> Intersect(spanCall.self, spanCall.other))
    /\ C8_Example

\* b.overlaps(c) of the example has returned false.
C8_Witness ==
    /\ spanCall.op = "overlaps"
    /\ spanCall.self = Span(3, 5)
    /\ spanCall.other = Span(6, 11)
    /\ spanCall.ret = FALSE

\* C10: on spans with start <= end, includes implies overlaps, overlaps is
\* symmetric and reflexive, includes is irreflexive and asymmetric; and
\* without start <= end a span can include another without overlapping it
\* ((0,2) includes (3,1) and does not overlap it).
C10_SpanRelations ==
    /\ (/\ spanCall.op = "includes"
        /\ WellFormed(spanCall.self)
        /\ WellFormed(spanCall.other)) =>
         /\ spanCall.ret => overlaps(spanCall.self, spanCall.other)
         /\ spanCall.ret => ~includes(spanCall.other, spanCall.self)
         /\ spanCall.self = spanCall.other => ~spanCall.ret
    /\ (/\ spanCall.op = "overlaps"
        /\ WellFormed(spanCall.self)
        /\ WellFormed(spanCall.other)) =>
         /\ spanCall.ret <=> overlaps(spanCall.other, spanCall.self)
         /\ spanCall.self = spanCall.other => spanCall.ret
    /\ (/\ spanCall.op = "includes"
        /\ spanCall.self = Span(0, 2)
        /\ spanCall.other = Span(3, 1)) =>
         spanCall.ret /\ ~overlaps(spanCall.self, spanCall.other)

\* A well-formed span was found to include another well-formed one.
C10_Witness ==
    /\ spanCall.op = "includes"
    /\ WellFormed(spanCall.self)
    /\ WellFormed(spanCall.other)
    /\ spanCall.ret = TRUE

----------------------------------------------------------------------------
(* Properties of BinOpKind *)

\* The 18 canonical spellings and their kinds.
CanonicalBinOps ==
    {<< <<"+">>, "Add">>, << <<"-">>, "Sub">>, << <<"*">>, "Mul">>,
     << <<"/">>, "Div">>, << <<"%">>, "Mod">>, << <<"&">>, "And">>,
     << <<"|">>, "Or">>, << <<"^">>, "Xor">>,
     << <<"&", "&">>, "LogAnd">>, << <<"|", "|">>, "LogOr">>,
     << <<"<", "<">>, "Shl">>, << <<">", ">">>, "Shr">>,
     << <<"=", "=">>, "Eq">>, << <<"!", "=">>, "Ne">>,
     << <<"<">>, "Lt">>, << <<">">>, "Gt">>,
     << <<"<", "=">>, "Le">>, << <<">", "=">>, "Ge">>}

\* C3: from_str is the canonical spelling table: each of the 18 spellings
\* parses to its kind, every other text fails with "invalid binary operator".
C3_CanonicalTable ==
    binCall.op = "from_str" =>
        IF \E e \in CanonicalBinOps : e[1] = binCall.text
        THEN \E e \in CanonicalBinOps :
                e[1] = binCall.text /\ binCall.ret = Ok(e[2])
        ELSE binCall.ret = Err("invalid binary operator")

DocumentedGroups ==
    <<{}, {}, {"Mul", "Div", "Mod"}, {"Add", "Sub"}, {"Shl", "Shr"},
      {"Lt", "Gt", "Le", "Ge"}, {"Eq", "Ne"}, {"And"}, {"Xor"}, {"Or"},
      {"LogAnd"}, {"LogOr"}>>

\* C6: precedence() returns the documented rank of each of the 18 kinds
\* (3 Mul Div Mod, 4 Add Sub, 5 Shl Shr, 6 Lt Gt Le Ge, 7 Eq Ne, 8 And,
\* 9 Xor, 10 Or, 11 LogAnd, 12 LogOr), so kinds of one group have equal
\* rank and kinds of an earlier group a strictly smaller rank; and
\* associativity() returns Ltr for every kind.
C6_BinaryRanks ==
    /\ binCall.op = "precedence" =>
         /\ binCall.ret \in 3..12
         /\ binCall.self \in DocumentedGroups[binCall.ret]
         /\ \A g \in 3..12 : \A k \in DocumentedGroups[g] :
              /\ g = binCall.ret => BinOpKind_precedence(k) = binCall.ret
              /\ g < binCall.ret => BinOpKind_precedence(k) < binCall.ret
              /\ g > binCall.ret => BinOpKind_precedence(k) > binCall.ret
    /\ binCall.op = "associativity" => binCall.ret = "Ltr"

\* LogOr.precedence() has returned 12.
C6_Witness ==
    /\ binCall.op = "precedence"
    /\ binCall.self = "LogOr"
    /\ binCall.ret = 12

----------------------------------------------------------------------------
(* Properties of UnOpKind *)

\* A text str::parse::<usize> accepts: decimal digits, after an optional "+".
RECURSIVE DecimalValue(_)
DecimalValue(t) ==
    IF t = <<>> THEN 0
    ELSE 10 * DecimalValue(SubSeq(t, 1, Len(t) - 1)) + DigitValue(t[Len(t)])

Unsigned(t) == IF t # <<>> /\ t[1] = "+" THEN Tail(t) ELSE t

Parseable(t) ==
    /\ Unsigned(t) # <<>>
    /\ \A i \in 1..Len(Unsigned(t)) : Unsigned(t)[i] \in Digits

\* C4: a text that starts with "[" and ends with "]" yields Index(n), n the
\* number between the brackets, or Index(0) when that is no parseable
\* unsigned number; "++" and "--" fail with "cannot determine associativity
\* of operator"; "&", "~", "!", "*" yield Addr, Not, LogNot, Deref; every
\* other text fails with "invalid unary operator"; so parsing never yields
\* SuffixIncr, SuffixDecr, PrefixIncr, PrefixDecr, Call or Neg.
C4_UnaryParse ==
    unCall.op = "from_str" =>
        LET s == unCall.text
            ret == unCall.ret
            inner == SubSeq(s, 2, Len(s) - 1)
        IN  /\ IF Len(s) > 0 /\ s[1] = "[" /\ s[Len(s)] = "]"
               THEN ret = Ok([kind |-> "Index",
                              n |-> IF Parseable(inner)
                                    THEN DecimalValue(Unsigned(inner)) ELSE 0])
               ELSE IF s \in {<<"+", "+">>, <<"-", "-">>}
               THEN ret = Err("cannot determine associativity of operator")
               ELSE IF s = <<"&">> THEN ret = Ok([kind |-> "Addr"])
               ELSE IF s = <<"~">> THEN ret = Ok([kind |-> "Not"])
               ELSE IF s = <<"!">> THEN ret = Ok([kind |-> "LogNot"])
               ELSE IF s = <<"*">> THEN ret = Ok([kind |-> "Deref"])
               ELSE ret = Err("invalid unary operator")
            /\ ret.tag = "Ok" =>
                 ret.val.kind \notin {"SuffixIncr", "SuffixDecr", "PrefixIncr",
                                      "PrefixDecr", "Call", "Neg"}
            /\ s = <<"[", "3", "]">> => ret = Ok([kind |-> "Index", n |-> 3])
            /\ s \in {<<"[", "a", "b", "c", "]">>, <<"[", "]">>} =>
                 ret = Ok([kind |-> "Index", n |-> 0])

\* "[abc]" has been parsed to Index(0).
C4_Witness ==
    /\ unCall.op = "from_str"
    /\ unCall.text = <<"[", "a", "b", "c", "]">>
    /\ unCall.ret = Ok([kind |-> "Index", n |-> 0])

\* C7: for every UnOpKind value, precedence() is 1 and associativity() is
\* Ltr for SuffixIncr, SuffixDecr and Index(n), and precedence() is 2 and
\* associativity() is Rtl for every other kind; so associativity() is Ltr
\* if and only if precedence() is 1.
C7_UnaryRanks ==
    LET tight == unCall.self.kind \in {"SuffixIncr", "SuffixDecr", "Index"}
        loose == unCall.self.kind \in {"PrefixIncr", "PrefixDecr", "Addr", "Not",
                                       "LogNot", "Deref", "Call", "Neg"}
    IN  /\ unCall.op = "precedence" =>
             /\ tight \/ loose
             /\ tight => unCall.ret = 1
             /\ loose => unCall.ret = 2
             /\ unCall.ret = 1 <=> UnOpKind_associativity(unCall.self) = "Ltr"
        /\ unCall.op = "associativity" =>
             /\ tight \/ loose
             /\ tight => unCall.ret = "Ltr"
             /\ loose => unCall.ret = "Rtl"
             /\ unCall.ret = "Ltr" <=> UnOpKind_precedence(unCall.self) = 1

\* associativity() of an Index(n) with n > 0 has returned Ltr.
C7_Witness ==
    /\ unCall.op = "associativity"
    /\ unCall.self.kind = "Index"
    /\ unCall.self.n > 0
    /\ unCall.ret = "Ltr"

====
